---- MODULE Spec2Model ----
(***************************************************************************)
(* SwizzleSpeedTest: the bit-interleave address mapper linear_to_swizzle,  *)
(* the reference transcoder slowSwizzle, the incremental transcoder        *)
(* fastSwizzle and the benchmark loop of main, as state machines.          *)
(*                                                                         *)
(* A u32 is a pair <<high 16 bits, low 16 bits>> so that the masks with    *)
(* the top bits set (x_mask) and modulo-2^32 subtraction are exact.  A     *)
(* buffer element is a u32 whose four bytes lie in memory low byte first,  *)
(* so that memset and memcmp, which count bytes, act on what they act on   *)
(* in the program.                                                         *)
(***************************************************************************)
EXTENDS Integers, Naturals, Sequences, FiniteSets, TLC

(***************************************************************************)
(* Bounds of the model.                                                    *)
(***************************************************************************)
\* Spec: log2 of width and of height range over 0..MaxLog2.
MaxLog2 == 4
\* SpecHarness, SpecCompare: log2 of max_w and of max_h range over 0..HarnessMaxLog2.
HarnessMaxLog2 == 2
\* SpecWide: log2 of width and of height range over WideMinLog2..WideMaxLog2,
\* and the first WideRows rows of each call are walked.
WideMinLog2 == 12
WideMaxLog2 == 13
WideRows == 1

(***************************************************************************)
(* 32-bit words.                                                           *)
(***************************************************************************)
Half == 65536

RECURSIVE BitAnd(_, _)
BitAnd(a, b) ==
    IF a = 0 \/ b = 0 THEN 0
    ELSE (a % 2) * (b % 2) + 2 * BitAnd(a \div 2, b \div 2)

BitOr(a, b) == a + b - BitAnd(a, b)

\* a u32 from a natural below 2^31
U32(n) == <<n \div Half, n % Half>>

\* the natural a u32 holds, for a u32 below 2^31
ToInt(w) == w[1] * Half + w[2]

And32(a, b) == <<BitAnd(a[1], b[1]), BitAnd(a[2], b[2])>>

Or32(a, b) == <<BitOr(a[1], b[1]), BitOr(a[2], b[2])>>

Not32(a) == <<(Half - 1) - a[1], (Half - 1) - a[2]>>

\* a - b modulo 2^32
Sub32(a, b) ==
    LET borrow == IF a[2] < b[2] THEN 1 ELSE 0
    IN  <<(a[1] - b[1] - borrow + 2 * Half) % Half, (a[2] - b[2] + Half) % Half>>

\* a + b modulo 2^32
Add32(a, b) ==
    LET carry == IF a[2] + b[2] >= Half THEN 1 ELSE 0
    IN  <<(a[1] + b[1] + carry) % Half, (a[2] + b[2]) % Half>>

Zero32 == <<0, 0>>

One32 == <<0, 1>>

(***************************************************************************)
(* linear_to_swizzle: one pass of the while loop consumes a bit of x, then *)
(* a bit of y, then a bit of z, each only while its budget lasts.          *)
(***************************************************************************)
RECURSIVE linear_to_swizzle_loop(_, _, _, _, _, _, _, _)
linear_to_swizzle_loop(x, y, z, log2_width, log2_height, log2_depth, offset, shift_count) ==
    IF log2_width = 0 /\ log2_height = 0 /\ log2_depth = 0 THEN offset
    ELSE
      LET o1 == IF log2_width > 0
                THEN BitOr(offset, (x % 2) * 2 ^ shift_count) ELSE offset
          s1 == IF log2_width > 0 THEN shift_count + 1 ELSE shift_count
          o2 == IF log2_height > 0
                THEN BitOr(o1, (y % 2) * 2 ^ s1) ELSE o1
          s2 == IF log2_height > 0 THEN s1 + 1 ELSE s1
          o3 == IF log2_depth > 0
                THEN BitOr(o2, (z % 2) * 2 ^ s2) ELSE o2
          s3 == IF log2_depth > 0 THEN s2 + 1 ELSE s2
      IN  linear_to_swizzle_loop(
              IF log2_width > 0 THEN x \div 2 ELSE x,
              IF log2_height > 0 THEN y \div 2 ELSE y,
              IF log2_depth > 0 THEN z \div 2 ELSE z,
              IF log2_width > 0 THEN log2_width - 1 ELSE 0,
              IF log2_height > 0 THEN log2_height - 1 ELSE 0,
              IF log2_depth > 0 THEN log2_depth - 1 ELSE 0,
              o3, s3)

\* linear_to_swizzle with the height budget one bit short
linear_to_swizzle_short(x, y, z, log2_width, log2_height, log2_depth) ==
    linear_to_swizzle_loop(x, y, z, log2_width,
                           IF log2_height > 0 THEN log2_height - 1 ELSE 0, log2_depth, 0, 0)

\* linear_to_swizzle consuming y's bit before x's
linear_to_swizzle_yfirst(x, y, z, log2_width, log2_height, log2_depth) ==
    linear_to_swizzle_loop(y, x, z, log2_height, log2_width, log2_depth, 0, 0)

linear_to_swizzle(x, y, z, log2_width, log2_height, log2_depth) ==
    linear_to_swizzle_loop(x, y, z, log2_width, log2_height, log2_depth, 0, 0)

\* log2 of a power of two, as log2(width) truncated to an integer gives it
RECURSIVE log2(_)
log2(n) == IF n <= 1 THEN 0 ELSE 1 + log2(n \div 2)

(***************************************************************************)
(* fastSwizzle's masks.                                                    *)
(***************************************************************************)
\* u32 x_mask = 0x555555; the swap branch that follows changes nothing
x_mask_init(swap) == <<85, 21845>>

\* u32 y_mask = 0xAAAAAA
y_mask_init(swap) == <<170, 43690>>

\* limitMask = 1 << (min(log2width, log2height) << 1)
limitMask(log2width, log2height) ==
    U32(2 ^ (2 * (IF log2width < log2height THEN log2width ELSE log2height)))

\* x_mask cut at the limit like y_mask, without the carry bits above it
x_mask_cut(log2width, log2height, swap) ==
    And32(x_mask_init(swap), Sub32(limitMask(log2width, log2height), One32))

\* x_mask | ~(limitMask - 1)
x_mask(log2width, log2height, swap) ==
    Or32(x_mask_init(swap), Not32(Sub32(limitMask(log2width, log2height), One32)))

\* y_mask & (limitMask - 1)
y_mask(log2width, log2height, swap) ==
    And32(y_mask_init(swap), Sub32(limitMask(log2width, log2height), One32))

\* y_incr one bit too high
y_incr_doubled(log2width, log2height) ==
    Add32(limitMask(log2width, log2height), limitMask(log2width, log2height))

\* u32 y_incr = limitMask
y_incr(log2width, log2height) == limitMask(log2width, log2height)

\* offs_x = (offs_x - x_mask) & x_mask
NextOffsX(offs, mask) == And32(Sub32(offs, mask), mask)

(***************************************************************************)
(* Memory.  A buffer of u32 elements is its element count, the content it  *)
(* had when it was handed over (fill) and the cells stored since (cells).  *)
(* An element is a u32; its four bytes lie in memory low byte first.       *)
(***************************************************************************)
\* linearPixels[i] = i
SeqFill == [kind |-> "seq", value |-> Zero32]

\* a source with repeated values, as the std::rand() fill would give
ModFill == [kind |-> "mod3", value |-> Zero32]

ConstFill(e) == [kind |-> "const", value |-> e]

\* what new u32[n] may hold before anything is stored
Junk == {<<0, 0>>, <<52685, 52685>>}

NewBuffer(n, fill) == [size |-> n, fill |-> fill, cells |-> <<>>]

\* a buffer the run does not use
NoBuffer == NewBuffer(0, ConstFill(Zero32))

FillAt(fill, i) ==
    CASE fill.kind = "seq" -> U32(i)
      [] fill.kind = "mod3" -> U32(i % 3)
      [] OTHER -> fill.value

Read(buf, i) == IF i \in DOMAIN buf.cells THEN buf.cells[i] ELSE FillAt(buf.fill, i)

Store(buf, i, e) == [buf EXCEPT !.cells = (i :> e) @@ buf.cells]

\* byte k (0..3) of an element, in memory order
ByteOf(e, k) ==
    CASE k = 0 -> e[2] % 256
      [] k = 1 -> e[2] \div 256
      [] k = 2 -> e[1] % 256
      [] OTHER -> e[1] \div 256

FromBytes(b0, b1, b2, b3) == <<b2 + 256 * b3, b0 + 256 * b1>>

\* byte offset k of a buffer
ByteAt(buf, k) == ByteOf(Read(buf, k \div 4), k % 4)

\* memset(buf, c, n): the first n BYTES of buf become c
Memset(buf, c, n) ==
    LET touched == {i \in 0 .. buf.size - 1 : 4 * i < n}
        new(i) == FromBytes(IF 4 * i < n THEN c ELSE ByteAt(buf, 4 * i),
                            IF 4 * i + 1 < n THEN c ELSE ByteAt(buf, 4 * i + 1),
                            IF 4 * i + 2 < n THEN c ELSE ByteAt(buf, 4 * i + 2),
                            IF 4 * i + 3 < n THEN c ELSE ByteAt(buf, 4 * i + 3))
    IN  [buf EXCEPT !.cells = [i \in touched |-> new(i)] @@ buf.cells]

\* memcmp(a, b, n) != 0: some of the first n BYTES differ
Memcmp(a, b, n) == \E k \in 0 .. n - 1 : ByteAt(a, k) # ByteAt(b, k)

(***************************************************************************)
(* State.                                                                  *)
(***************************************************************************)
VARIABLES
    width, height,  \* the u16 arguments of the calls (max_w, max_h in main)
    swap,           \* the swap argument of the first pass
    rows,           \* how many rows of a fastSwizzle call are walked (height, except in SpecWide)
    beyond,         \* what the memory outside the buffers holds
    mem,            \* the buffers: linear, slow, fast, slowBack, fastBack
    pc,             \* where control is
    todo,           \* the calls still to make
    call,           \* the running call: fn, src, dst, swap, ret
    x, y,           \* the loop counters of the running call
    offs_x, offs_y, offs_x0,  \* fastSwizzle's running offsets
    nwrites,        \* stores made by the running call
    count,          \* main's loop counter
    mismatches,     \* times main printed "mismatch!"
    reported,       \* whether the last comparison printed "mismatch!"
    status          \* main's return value, -1 while it runs

cfgVars == <<width, height, swap, rows, beyond>>

loopVars == <<x, y, offs_x, offs_y, offs_x0, nwrites>>

harnessVars == <<count, mismatches, reported, status>>

vars == <<cfgVars, mem, pc, todo, call, loopVars, harnessVars>>

\* u32 numTimes = 4
numTimes == 4

Total == width * height

NoCall == [fn |-> "none", src |-> "linear", dst |-> "linear", swap |-> FALSE, ret |-> "none"]

Call(fn, src, dst, sw, ret) == [fn |-> fn, src |-> src, dst |-> dst, swap |-> sw, ret |-> ret]

\* entry of slowSwizzle or fastSwizzle: the locals before the row loop
Enter(c) ==
    /\ call' = c
    /\ x' = 0
    /\ y' = 0
    /\ offs_x' = Zero32
    /\ offs_y' = Zero32
    /\ offs_x0' = Zero32
    /\ nwrites' = 0
    /\ pc' = IF c.fn = "slow" THEN "slow" ELSE "fast_row"

(***************************************************************************)
(* slowSwizzle.                                                            *)
(***************************************************************************)
\* the body of the inner loop: the destination after it
SlowBody(src, dst, w, h, sw, xx, yy) ==
    LET rowStart == yy * w
        offset == linear_to_swizzle(xx, yy, 0, log2(w), log2(h), 0)
    IN  IF sw THEN Store(dst, offset, Read(src, rowStart + xx))
        ELSE Store(dst, rowStart + xx, Read(src, offset))

SlowSwizzleStep ==
    /\ pc = "slow"
    /\ y < height
    /\ x < width
    /\ mem' = [mem EXCEPT ![call.dst] =
                 SlowBody(mem[call.src], mem[call.dst], width, height, call.swap, x, y)]
    /\ x' = x + 1
    /\ nwrites' = nwrites + 1
    /\ UNCHANGED <<cfgVars, pc, todo, call, y, offs_x, offs_y, offs_x0, harnessVars>>

SlowSwizzleRowEnd ==
    /\ pc = "slow"
    /\ y < height
    /\ x = width
    /\ y' = y + 1
    /\ x' = 0
    /\ UNCHANGED <<cfgVars, mem, pc, todo, call, offs_x, offs_y, offs_x0, nwrites, harnessVars>>

SlowSwizzleReturn ==
    /\ pc = "slow"
    /\ y = height
    /\ pc' = call.ret
    /\ UNCHANGED <<cfgVars, mem, todo, call, loopVars, harnessVars>>

(***************************************************************************)
(* fastSwizzle.                                                            *)
(***************************************************************************)
\* the element index on the interleaved side: (buffer + offs_y)[offs_x]
InterleavedIndex == ToInt(offs_y) + ToInt(offs_x)

\* the element index on the linear side: (buffer + y*width)[x]
LinearIndex == y * width + x

LoopRows == IF rows < height THEN rows ELSE height

\* the body of the inner loop, as the cell it sets
FastBody(src, sw, inter, lin) ==
    IF sw THEN (inter :> Read(src, lin)) ELSE (lin :> Read(src, inter))

FastSwizzleRowStart ==
    /\ pc = "fast_row"
    /\ y < LoopRows
    /\ offs_x' = offs_x0
    /\ x' = 0
    /\ pc' = "fast_col"
    /\ UNCHANGED <<cfgVars, mem, todo, call, y, offs_y, offs_x0, nwrites, harnessVars>>

\* the values offs_x takes in n passes of the inner loop, from offs on:
\* offs_x = (offs_x - x_mask) & x_mask after each
RECURSIVE OffsRun(_, _, _)
OffsRun(offs, mask, n) ==
    IF n = 0 THEN <<>>
    ELSE IF n = 1 THEN <<offs>>
    ELSE LET left == OffsRun(offs, mask, n \div 2)
         IN  left \o OffsRun(NextOffsX(left[n \div 2], mask), mask, n - n \div 2)

\* The store one pass of the inner loop makes, in column c with offs_x = o, as the
\* cell it sets: dst[offs_x] = src[x] or dst[x] = src[offs_x].  An interleaved
\* index outside the buffer makes the access undefined; where the process
\* survives it, the access goes to the memory outside the buffers: a store is
\* lost to it, a load reads what it holds.
ColumnStore(o, c) ==
    LET inter == ToInt(offs_y) + ToInt(o)
        lin == y * width + c
    IN  IF inter < Total
        THEN FastBody(mem[call.src], call.swap, inter, lin)
        ELSE IF call.swap THEN <<>> ELSE (lin :> beyond)

\* the stores of n passes, from the pass with offs_x = run[j] on; a later store
\* to a cell replaces an earlier one
RECURSIVE ColumnStores(_, _, _)
ColumnStores(run, j, n) ==
    IF n = 0 THEN <<>>
    ELSE IF n = 1 THEN ColumnStore(run[j], x + j - 1)
    ELSE ColumnStores(run, j + n \div 2, n - n \div 2) @@ ColumnStores(run, j, n \div 2)

\* the values offs_x takes in the next n passes of the inner loop
Run(n) == OffsRun(offs_x, x_mask(log2(width), log2(height), call.swap), n)

\* n passes of the inner loop
FastColumns(n) ==
    /\ mem' = [mem EXCEPT ![call.dst].cells = ColumnStores(Run(n), 1, n) @@ @]
    /\ offs_x' = NextOffsX(Run(n)[n], x_mask(log2(width), log2(height), call.swap))
    /\ x' = x + n
    /\ nwrites' = nwrites + n

\* some of the next n passes of the inner loop uses an index outside the buffer
LeavesBuffer(n) ==
    ~ \A run \in {Run(n)} : \A j \in 1 .. n : ToInt(offs_y) + ToInt(run[j]) < Total

FastSwizzleStep ==
    /\ pc = "fast_col"
    /\ x < width
    /\ ~LeavesBuffer(1)
    /\ FastColumns(1)
    /\ UNCHANGED <<cfgVars, pc, todo, call, y, offs_y, offs_x0, harnessVars>>

\* The inner loop from its first pass to its last, in one step.
FastSwizzleRow ==
    /\ pc = "fast_col"
    /\ x < width
    /\ FastColumns(width - x)
    /\ UNCHANGED <<cfgVars, pc, todo, call, y, offs_y, offs_x0, harnessVars>>

\* The inner loop makes an access outside the buffer and the process is killed.
FastSwizzleRowKilled ==
    /\ pc = "fast_col"
    /\ x < width
    /\ LeavesBuffer(width - x)
    /\ pc' = "killed"
    /\ UNCHANGED <<cfgVars, mem, todo, call, loopVars, harnessVars>>

FastSwizzleRowEnd ==
    /\ pc = "fast_col"
    /\ x = width
    /\ LET next == NextOffsX(offs_y, y_mask(log2(width), log2(height), call.swap))
       IN  /\ offs_y' = next
           /\ offs_x0' = IF next = Zero32
                         THEN Add32(offs_x0, y_incr(log2(width), log2(height)))
                         ELSE offs_x0
    /\ y' = y + 1
    /\ pc' = "fast_row"
    /\ UNCHANGED <<cfgVars, mem, todo, call, x, offs_x, nwrites, harnessVars>>

FastSwizzleReturn ==
    /\ pc = "fast_row"
    /\ y = LoopRows
    /\ pc' = call.ret
    /\ UNCHANGED <<cfgVars, mem, todo, call, loopVars, harnessVars>>

(***************************************************************************)
(* The transcoders called on their own: the first pass with the swap       *)
(* argument, and after a swizzle the pass back.                            *)
(***************************************************************************)
TestCall ==
    /\ pc = "test"
    /\ todo # <<>>
    /\ Enter(Head(todo))
    /\ todo' = Tail(todo)
    /\ UNCHANGED <<cfgVars, mem, harnessVars>>

TestDone ==
    /\ pc = "test"
    /\ todo = <<>>
    /\ pc' = "done"
    /\ UNCHANGED <<cfgVars, mem, todo, call, loopVars, harnessVars>>

Dims(lo, hi) == {2 ^ k : k \in lo .. hi}

InitLocals ==
    /\ call = NoCall
    /\ x = 0
    /\ y = 0
    /\ offs_x = Zero32
    /\ offs_y = Zero32
    /\ offs_x0 = Zero32
    /\ nwrites = 0

InitCounters ==
    /\ count = 0
    /\ mismatches = 0
    /\ reported = FALSE
    /\ status = -1

Init ==
    /\ width \in Dims(0, MaxLog2)
    /\ height \in Dims(0, MaxLog2)
    /\ swap \in BOOLEAN
    /\ rows = height
    /\ beyond \in Junk
    /\ \E fill \in {SeqFill, ModFill} :
          mem = [linear |-> NewBuffer(Total, fill),
                 slow |-> NewBuffer(Total, ConstFill(beyond)),
                 fast |-> NewBuffer(Total, ConstFill(beyond)),
                 slowBack |-> NewBuffer(Total, ConstFill(beyond)),
                 fastBack |-> NewBuffer(Total, ConstFill(beyond))]
    /\ pc = "test"
    /\ todo = <<Call("slow", "linear", "slow", swap, "test"),
                Call("fast", "linear", "fast", swap, "test")>>
              \o (IF swap
                  THEN <<Call("slow", "slow", "slowBack", FALSE, "test"),
                         Call("fast", "fast", "fastBack", FALSE, "test")>>
                  ELSE <<>>)
    /\ InitLocals
    /\ InitCounters

Next ==
    \/ TestCall
    \/ TestDone
    \/ SlowSwizzleStep
    \/ SlowSwizzleRowEnd
    \/ SlowSwizzleReturn
    \/ FastSwizzleRowStart
    \/ FastSwizzleStep
    \/ FastSwizzleRowEnd
    \/ FastSwizzleReturn

Spec == Init /\ [][Next]_vars

(***************************************************************************)
(* fastSwizzle at the sizes around the twelve lanes of 0x555555 and        *)
(* 0xAAAAAA.  The buffers hold 2^24 elements and more, so the first rows   *)
(* of each call are walked, each row's inner loop in one step.             *)
(***************************************************************************)
InitWide ==
    /\ width \in Dims(WideMinLog2, WideMaxLog2)
    /\ height \in Dims(WideMinLog2, WideMaxLog2)
    /\ swap \in BOOLEAN
    /\ rows = WideRows
    /\ beyond \in Junk
    /\ mem = [linear |-> NewBuffer(Total, SeqFill),
              slow |-> NoBuffer,
              fast |-> NewBuffer(Total, ConstFill(beyond)),
              slowBack |-> NoBuffer,
              fastBack |-> NewBuffer(Total, ConstFill(beyond))]
    /\ pc = "test"
    /\ todo = <<Call("fast", "linear", "fast", swap, "test")>>
              \o (IF swap THEN <<Call("fast", "fast", "fastBack", FALSE, "test")>> ELSE <<>>)
    /\ InitLocals
    /\ InitCounters

NextWide ==
    \/ TestCall
    \/ TestDone
    \/ FastSwizzleRowStart
    \/ FastSwizzleRow
    \/ FastSwizzleRowKilled
    \/ FastSwizzleRowEnd
    \/ FastSwizzleReturn

SpecWide == InitWide /\ [][NextWide]_vars

(***************************************************************************)
(* main: the benchmark loop.  The durations it adds up and the text it     *)
(* prints at the end are left out; "mismatch!" is counted.                 *)
(***************************************************************************)
\* the byte memset is given: 0xcc
SentinelByte == 204

\* an element all of whose bytes are 0xcc
SentinelWord == FromBytes(SentinelByte, SentinelByte, SentinelByte, SentinelByte)

\* for (count = 0; count < numTimes; ...)
HarnessLoop ==
    /\ pc = "h_loop"
    /\ count < numTimes
    /\ pc' = "h_memset"
    /\ UNCHANGED <<cfgVars, mem, todo, call, loopVars, harnessVars>>

\* memset(slowSwizzlePixels, 0xcc, max_w * max_h); the same for fastSwizzlePixels
HarnessMemset ==
    /\ pc = "h_memset"
    /\ mem' = [mem EXCEPT !.slow = Memset(@, SentinelByte, width * height),
                          !.fast = Memset(@, SentinelByte, width * height)]
    /\ pc' = "h_slow"
    /\ UNCHANGED <<cfgVars, todo, call, loopVars, harnessVars>>

\* slowSwizzle(linearPixels, slowSwizzlePixels, max_w, max_h)
HarnessCallSlow ==
    /\ pc = "h_slow"
    /\ Enter(Call("slow", "linear", "slow", FALSE, "h_fast"))
    /\ UNCHANGED <<cfgVars, mem, todo, harnessVars>>

\* fastSwizzle(linearPixels, fastSwizzlePixels, max_w, max_h)
HarnessCallFast ==
    /\ pc = "h_fast"
    /\ Enter(Call("fast", "linear", "fast", FALSE, "h_memcmp"))
    /\ UNCHANGED <<cfgVars, mem, todo, harnessVars>>

\* if (memcmp(slow, fast, max_h * max_w) != 0) { printf("mismatch!\n"); cin >> hold; }
\* and the loop's ++count
HarnessMemcmp ==
    /\ pc = "h_memcmp"
    /\ LET differ == Memcmp(mem.slow, mem.fast, height * width)
       IN  /\ reported' = differ
           /\ mismatches' = IF differ THEN mismatches + 1 ELSE mismatches
    /\ count' = count + 1
    /\ pc' = "h_loop"
    /\ UNCHANGED <<cfgVars, mem, todo, call, loopVars, status>>

\* after the loop: delete[], the three lines of output, return 0
HarnessReturn ==
    /\ pc = "h_loop"
    /\ count = numTimes
    /\ status' = 0
    /\ pc' = "exited"
    /\ UNCHANGED <<cfgVars, mem, todo, call, loopVars, count, mismatches, reported>>

\* main up to the loop: linearPixels filled with its indices, the two output
\* surfaces fresh from new u32[]
InitHarness ==
    /\ width \in Dims(0, HarnessMaxLog2)
    /\ height \in Dims(0, HarnessMaxLog2)
    /\ swap = FALSE
    /\ rows = height
    /\ beyond \in Junk
    /\ \E js \in Junk, jf \in Junk :
          mem = [linear |-> NewBuffer(Total, SeqFill),
                 slow |-> NewBuffer(Total, ConstFill(js)),
                 fast |-> NewBuffer(Total, ConstFill(jf)),
                 slowBack |-> NoBuffer,
                 fastBack |-> NoBuffer]
    /\ pc = "h_loop"
    /\ todo = <<>>
    /\ InitLocals
    /\ InitCounters

NextHarness ==
    \/ HarnessLoop
    \/ HarnessMemset
    \/ HarnessCallSlow
    \/ HarnessCallFast
    \/ HarnessMemcmp
    \/ HarnessReturn
    \/ SlowSwizzleStep
    \/ SlowSwizzleRowEnd
    \/ SlowSwizzleReturn
    \/ FastSwizzleRowStart
    \/ FastSwizzleStep
    \/ FastSwizzleRowEnd
    \/ FastSwizzleReturn

SpecHarness == InitHarness /\ [][NextHarness]_vars

(***************************************************************************)
(* main from its comparison on, for the output pairs the comparison is     *)
(* there to tell apart: the reference output, and beside it that output    *)
(* with one element replaced.                                              *)
(***************************************************************************)
\* what slowSwizzle(linearPixels, ., w, h) leaves
ReferenceOutput(w, h) ==
    [NewBuffer(w * h, ConstFill(Zero32)) EXCEPT
        !.cells = [i \in 0 .. w * h - 1 |->
                     U32(linear_to_swizzle(i % w, i \div w, 0, log2(w), log2(h), 0))]]

InitCompare ==
    /\ width \in Dims(0, HarnessMaxLog2)
    /\ height \in Dims(0, HarnessMaxLog2)
    /\ swap = FALSE
    /\ rows = height
    /\ beyond \in Junk
    /\ \E k \in 0 .. Total - 1 :
          mem = [linear |-> NewBuffer(Total, SeqFill),
                 slow |-> ReferenceOutput(width, height),
                 fast |-> Store(ReferenceOutput(width, height), k, beyond),
                 slowBack |-> NoBuffer,
                 fastBack |-> NoBuffer]
    /\ pc = "h_memcmp"
    /\ todo = <<>>
    /\ InitLocals
    /\ InitCounters

SpecCompare == InitCompare /\ [][NextHarness]_vars

(***************************************************************************)
(* Properties.                                                             *)
(***************************************************************************)
Log2W == log2(width)

Log2H == log2(height)

Cells == 0 .. Total - 1

SameContent(a, b) == \A i \in Cells : Read(a, i) = Read(b, i)

AllStored(buf) == DOMAIN buf.cells = Cells

\* every call of the first pass has returned, and the pass back if there is one
Done == pc = "done"

\* the first slowSwizzle call has just returned
FirstSlowReturned == pc = "test" /\ call.fn = "slow" /\ call.src = "linear"

\* fastSwizzle is in row y, about to use the elements at (x, y) and on
InRow == pc = "fast_col" /\ x < width

\* the values of offs_x the rest of the row uses, for columns x, x+1, ...
RowOffsets == Run(width - x)

\* C1: for every power-of-two width and height of the model, square or not, and
\* both swap values, slowSwizzle and fastSwizzle called on the same source leave
\* the same destination, element for element.
C1_FastEqualsSlow ==
    Done => /\ AllStored(mem.slow)
            /\ AllStored(mem.fast)
            /\ SameContent(mem.slow, mem.fast)

C1_Witness ==
    Done /\ width = 16 /\ height = 4 /\ swap /\ mem.linear.fill = SeqFill

\* C2: for every element (x, y) fastSwizzle uses, offs_y + offs_x in 32-bit
\* arithmetic is linear_to_swizzle(x, y, 0, log2(width), log2(height), 0).
C2_IncrementalIsInterleave ==
    InRow => \A run \in {RowOffsets} : \A j \in 1 .. width - x :
                Add32(offs_y, run[j]) =
                    U32(linear_to_swizzle(x + j - 1, y, 0, Log2W, Log2H, 0))

\* C3: linear_to_swizzle over [0,width) x [0,height) takes each value of
\* 0..width*height-1 exactly once; so when slowSwizzle returns it has stored to
\* every destination cell once, and each destination cell holds the source
\* element the mapping pairs it with.
C3_Bijection ==
    FirstSlowReturned =>
        /\ {linear_to_swizzle(xx, yy, 0, Log2W, Log2H, 0) :
               xx \in 0 .. width - 1, yy \in 0 .. height - 1} = Cells
        /\ nwrites = Total
        /\ AllStored(mem.slow)
        /\ \A xx \in 0 .. width - 1, yy \in 0 .. height - 1 :
              LET offset == linear_to_swizzle(xx, yy, 0, Log2W, Log2H, 0)
                  linear == yy * width + xx
              IN  IF call.swap
                  THEN mem.slow.cells[offset] = Read(mem.linear, linear)
                  ELSE mem.slow.cells[linear] = Read(mem.linear, offset)

C3_Witness ==
    FirstSlowReturned /\ width = 4 /\ height = 16 /\ swap /\ mem.linear.fill = ModFill

\* C4: after swizzling B into T and de-swizzling T into R, with slowSwizzle or
\* with fastSwizzle, every element of R is the element of B at its index; when
\* the passes have run to their end R is complete.
C4_RoundTrip ==
    \A b \in {"slowBack", "fastBack"} :
        /\ \A i \in DOMAIN mem[b].cells : mem[b].cells[i] = Read(mem.linear, i)
        /\ (Done /\ swap /\ rows = height /\ mem[b].size > 0) => AllStored(mem[b])

\* C5 as the spec states it: linear_to_swizzle(3, 2, 0, 2, 2, 0) is 11, and on a
\* 4x4 surface with swap = false both transcoders set destination[11] to source[11].
C5_AsStated ==
    (Done /\ width = 4 /\ height = 4 /\ ~swap) =>
        /\ linear_to_swizzle(3, 2, 0, 2, 2, 0) = 11
        /\ Read(mem.slow, 2 * 4 + 3) = Read(mem.linear, 11)
        /\ Read(mem.fast, 2 * 4 + 3) = Read(mem.linear, 11)

\* C5 amended: linear_to_swizzle(3, 2, 0, 2, 2, 0) is 13 (0b1101), and on a 4x4
\* surface with swap = false both transcoders set destination[2*4+3] =
\* destination[11] to source[13].
C5_Interleave13 ==
    (Done /\ width = 4 /\ height = 4 /\ ~swap) =>
        /\ linear_to_swizzle(3, 2, 0, 2, 2, 0) = 13
        /\ Read(mem.slow, 2 * 4 + 3) = Read(mem.linear, 13)
        /\ Read(mem.fast, 2 * 4 + 3) = Read(mem.linear, 13)

C5_Witness ==
    Done /\ width = 4 /\ height = 4 /\ ~swap /\ mem.linear.fill = SeqFill

\* C6: with width 1 or height 1 no access of fastSwizzle leaves the buffers, and
\* when the calls have returned both destinations are the source, element for
\* element, for either swap value.
C6_DegenerateIdentity ==
    (width = 1 \/ height = 1) =>
        /\ InRow => InterleavedIndex < Total /\ LinearIndex < Total
        /\ Done => /\ AllStored(mem.slow)
                   /\ AllStored(mem.fast)
                   /\ SameContent(mem.slow, mem.linear)
                   /\ SameContent(mem.fast, mem.linear)

C6_Witness ==
    Done /\ width = 1 /\ height = 16 /\ swap /\ mem.linear.fill = SeqFill

C9_SurfacesCleared ==
    /\ pc = "h_slow" => \A i \in Cells : /\ Read(mem.slow, i) = SentinelWord
                                         /\ Read(mem.fast, i) = SentinelWord
    /\ pc = "h_fast" => \A i \in Cells : Read(mem.fast, i) = SentinelWord

\* C10: every index fastSwizzle uses, offs_y + offs_x on the interleaved side and
\* y*width + x on the linear side, lies in [0, width*height), and the source of
\* the first pass is never stored to.
C10_IndicesInRange ==
    /\ InRow => \A run \in {RowOffsets} : \A j \in 1 .. width - x :
                   /\ ToInt(offs_y) + ToInt(run[j]) \in Cells
                   /\ y * width + x + j - 1 \in Cells
    /\ mem.linear.cells = <<>>

====
